---------------------------- MODULE Spec2Model ----------------------------
(***************************************************************************)
(* Simplest fraction in an interval (mdickinson/simplefractions).          *)
(*                                                                         *)
(* A fraction is a pair <<numerator, denominator>>.  fractions.Fraction    *)
(* values are kept in lowest terms with a positive denominator; the        *)
(* missing endpoint (Python None) is the pair <<0, 0>>.                    *)
(***************************************************************************)
EXTENDS Integers, Sequences, FiniteSets, TLC

\* Bounds of the model: endpoints are the fractions n/d in lowest terms
\* with |n| <= MaxNum and 1 <= d <= MaxDen.
MaxNum == 6
MaxDen == 5

\* Bounds of the model: the binary floating-point format has ExpBits exponent
\* bits and ManBits stored significand bits (a double has 11 and 52).
ExpBits == 3
ManBits == 3

\* Bound of the model: no loop runs more than MaxIter iterations.
MaxIter == 16

\* Bounds of the properties: the fractions n/d converted to a float and back
\* have 1 <= n <= MaxRoundNum and 1 <= d <= MaxRoundDen.
MaxRoundNum == 16
MaxRoundDen == 66

\* Bound of the properties: the rounding interval is sampled at the points
\* left + k * (right - left) / GridSteps.
GridSteps == 8

VARIABLES
    entry,              \* which function of the repository is called
    call,               \* the arguments of the call under study, as passed
    left, right,        \* endpoint parameters (rebound by the normaliser)
    include_left, include_right,
    negate,             \* _simplest_in_interval.py: local flag
    left_numerator, left_denominator, left_closed,
    right_numerator, right_denominator, right_closed,
    s, t, u, v, st_closed, uv_closed,
    a, b, c, d,         \* the matrix of the core loop
    iter,               \* number of loop iterations executed so far
    nd,                 \* the pair returned by the core
    left_negative,      \* sided_fraction.py: local flag
    ln, ld, lh, rn, rd, rh,  \* sided_fraction.py: locals of its core
    x,                  \* simplest_from_float: the float argument
    path1, path2,       \* __init__.py: the two _esb_path generators
    float_matrix,       \* _from_esb_path: the matrix holds float inf or nan
    pc, result, err

inputVars == <<left, right, include_left, include_right>>
argVars == <<left_numerator, left_denominator, left_closed,
             right_numerator, right_denominator, right_closed>>
matVars == <<a, b, c, d, iter>>
posVars == <<negate, argVars, s, t, u, v, st_closed, uv_closed>>
sidedVars == <<left_negative, ln, ld, lh, rn, rd, rh>>
pathVars == <<path1, path2, float_matrix>>
fixed == <<entry, call, x>>
vars == <<fixed, inputVars, posVars, matVars, nd, sidedVars, pathVars,
          pc, result, err>>

---------------------------------------------------------------------------
\* Values

None == <<0, 0>>
IsNone(p) == p[2] = 0

Abs(i) == IF i < 0 THEN -i ELSE i
B2I(p) == IF p THEN 1 ELSE 0

RECURSIVE GCD(_, _)
GCD(i, j) == IF j = 0 THEN i ELSE GCD(j, i % j)

\* fractions.Fraction(n, m) for m # 0: lowest terms, positive denominator.
Fraction(n, m) ==
    LET g == GCD(Abs(n), Abs(m))
        sg == IF m < 0 THEN -1 ELSE 1
    IN  <<sg * (n \div g), Abs(m) \div g>>

\* Fraction comparison and negation (exact, by cross-multiplication).
FLt(p, q) == p[1] * q[2] < q[1] * p[2]
FEq(p, q) == p[1] * q[2] = q[1] * p[2]
FLe(p, q) == p[1] * q[2] <= q[1] * p[2]
FNeg(p) == <<-p[1], p[2]>>
Zero == <<0, 1>>

Fractions ==
    {f \in (-MaxNum .. MaxNum) \X (1 .. MaxDen) : GCD(Abs(f[1]), f[2]) = 1}
Endpoints == Fractions \cup {None}

---------------------------------------------------------------------------
\* _simplest_in_interval_pos (src/simplefractions/_simplest_in_interval.py)

\* Mutant: the loop condition ignores whether the left endpoint is closed.
LoopCondIgnoresClosed(s_, t_, cl) == t_ <= s_

\* Line 159: the loop condition.
LoopCond(s_, t_, cl) == t_ <= s_ - B2I(cl)

\* Mutant: the quotient ignores whether the left endpoint is closed.
QuotientIgnoresClosed(s_, t_, cl) == s_ \div t_

\* Line 160: the quotient (Python floor division).
Quotient(s_, t_, cl) == (s_ - B2I(cl)) \div t_

\* Lines 155-158: bind the parameters and initialise the locals.
PosEntry(lnum, lden, lcl, rnum, rden, rcl) ==
    /\ left_numerator' = lnum
    /\ left_denominator' = lden
    /\ left_closed' = lcl
    /\ right_numerator' = rnum
    /\ right_denominator' = rden
    /\ right_closed' = rcl
    /\ s' = lnum + lden
    /\ t' = lden
    /\ u' = rnum + rden
    /\ v' = rden
    /\ st_closed' = lcl
    /\ uv_closed' = rcl
    /\ a' = 1
    /\ b' = -1
    /\ c' = 0
    /\ d' = 1
    /\ iter' = 0
    /\ pc' = "loop"

\* Mutant: line 163 is missing, the closure flags are not exchanged.
LoopBodyNoFlagSwap(f) ==
    LET q == (f.s - B2I(f.st_closed)) \div f.t
    IN  [s |-> f.v,
         t |-> f.u - q * f.v,
         u |-> f.t,
         v |-> f.s - q * f.t,
         a |-> f.b + q * f.a,
         b |-> f.a,
         c |-> f.d + q * f.c,
         d |-> f.c,
         st_closed |-> f.st_closed,
         uv_closed |-> f.uv_closed]

\* Mutant: line 162 assigns one name at a time, so b and d receive the
\* new a and the new c instead of the old ones.
LoopBodySequential(f) ==
    LET q == (f.s - B2I(f.st_closed)) \div f.t
    IN  [s |-> f.v,
         t |-> f.u - q * f.v,
         u |-> f.t,
         v |-> f.s - q * f.t,
         a |-> f.b + q * f.a,
         b |-> f.b + q * f.a,
         c |-> f.d + q * f.c,
         d |-> f.d + q * f.c,
         st_closed |-> f.uv_closed,
         uv_closed |-> f.st_closed]

\* Lines 160-163: the body of the while loop, as a function of the locals.
LoopBody(f) ==
    LET q == Quotient(f.s, f.t, f.st_closed)
    IN  [s |-> f.v,
         t |-> f.u - q * f.v,
         u |-> f.t,
         v |-> f.s - q * f.t,
         a |-> f.b + q * f.a,
         b |-> f.a,
         c |-> f.d + q * f.c,
         d |-> f.c,
         st_closed |-> f.uv_closed,
         uv_closed |-> f.st_closed]

Frame ==
    [s |-> s, t |-> t, u |-> u, v |-> v, a |-> a, b |-> b, c |-> c, d |-> d,
     st_closed |-> st_closed, uv_closed |-> uv_closed]

\* Lines 159-163: one iteration of the while loop.
LoopIter ==
    /\ pc = "loop"
    /\ LoopCond(s, t, st_closed)
    /\ iter < MaxIter
    /\ IF t = 0
       THEN /\ pc' = "raised"
            /\ err' = "ZeroDivisionError"
            /\ UNCHANGED <<s, t, u, v, st_closed, uv_closed, matVars>>
       ELSE LET f == LoopBody(Frame)
            IN  /\ s' = f.s
                /\ t' = f.t
                /\ u' = f.u
                /\ v' = f.v
                /\ a' = f.a
                /\ b' = f.b
                /\ c' = f.c
                /\ d' = f.d
                /\ st_closed' = f.st_closed
                /\ uv_closed' = f.uv_closed
                /\ iter' = iter + 1
                /\ UNCHANGED <<pc, err>>
    /\ UNCHANGED <<fixed, pathVars, inputVars, negate, argVars, nd, sidedVars,
                   result>>

\* Line 164: the loop condition fails and the core returns (a + b, c + d).
PosReturn ==
    /\ pc = "loop"
    /\ ~LoopCond(s, t, st_closed)
    /\ nd' = <<a + b, c + d>>
    /\ pc' = "returned"
    /\ UNCHANGED <<fixed, pathVars, inputVars, posVars, matVars, sidedVars,
                   result, err>>

\* Lines 159-164 run to completion: the pair returned, or <<0, 0>> when the
\* floor division of line 160 raises ZeroDivisionError.
RECURSIVE RunLoop(_)
RunLoop(f) ==
    IF ~LoopCond(f.s, f.t, f.st_closed) THEN <<f.a + f.b, f.c + f.d>>
    ELSE IF f.t = 0 THEN <<0, 0>>
    ELSE RunLoop(LoopBody(f))

\* Lines 117-164 as a function of the arguments.
simplest_in_interval_pos(lnum, lden, lcl, rnum, rden, rcl) ==
    RunLoop([s |-> lnum + lden, t |-> lden, u |-> rnum + rden, v |-> rden,
             a |-> 1, b |-> -1, c |-> 0, d |-> 1,
             st_closed |-> lcl, uv_closed |-> rcl])

---------------------------------------------------------------------------
\* _simplest_in_interval (src/simplefractions/_simplest_in_interval.py)

\* Mutant: equal endpoints count as nonempty whatever the flags.
nonempty_interval_le(l, r, il, ir) ==
    IsNone(l) \/ IsNone(r) \/ FLe(l, r)

\* Lines 210-215.
nonempty_interval(l, r, il, ir) ==
    \/ IsNone(l)
    \/ IsNone(r)
    \/ FLt(l, r)
    \/ (FEq(l, r) /\ il /\ ir)

\* Mutant: an interval ending at an excluded zero is not negated.
NegateCondStrict(r, ir) ==
    ~IsNone(r) /\ FLt(r, Zero)

\* Line 221.
NegateCond(r, ir) ==
    ~IsNone(r) /\ (FLt(r, Zero) \/ (FEq(r, Zero) /\ ~ir))

\* Lines 202-217: the message of the ValueError raised, "" when none is.
ArgumentError(l, r, il, ir) ==
    IF IsNone(l) /\ il THEN "interval may not contain -infinity"
    ELSE IF IsNone(r) /\ ir THEN "interval may not contain infinity"
    ELSE IF ~nonempty_interval(l, r, il, ir) THEN "empty interval"
    ELSE ""

\* Lines 202-217: raise on an included infinite endpoint or an empty interval.
Raise ==
    /\ pc = "start"
    /\ entry = "matrix"
    /\ ArgumentError(left, right, include_left, include_right) # ""
    /\ pc' = "raised"
    /\ err' = ArgumentError(left, right, include_left, include_right)
    /\ UNCHANGED <<fixed, pathVars, inputVars, posVars, matVars, nd, sidedVars,
                   result>>

\* Lines 219-234: negate the interval if needed and enter the core.
CallCore ==
    /\ pc = "start"
    /\ entry = "matrix"
    /\ ArgumentError(left, right, include_left, include_right) = ""
    /\ negate' = NegateCond(right, include_right)
    /\ left' = IF negate' THEN FNeg(right) ELSE left
    /\ right' = IF negate' THEN (IF IsNone(left) THEN None ELSE FNeg(left))
                ELSE right
    /\ include_left' = IF negate' THEN include_right ELSE include_left
    /\ include_right' = IF negate' THEN include_left ELSE include_right
    /\ PosEntry(IF IsNone(left') THEN -1 ELSE left'[1],
                IF IsNone(left') THEN 0 ELSE left'[2],
                include_left',
                IF IsNone(right') THEN 1 ELSE right'[1],
                IF IsNone(right') THEN 0 ELSE right'[2],
                include_right')
    /\ UNCHANGED <<fixed, pathVars, nd, sidedVars, result, err>>

\* Line 235: build the result fraction.
Return ==
    /\ pc = "returned"
    /\ entry = "matrix"
    /\ IF nd[2] = 0
       THEN /\ pc' = "raised"
            /\ err' = "ZeroDivisionError"
            /\ UNCHANGED result
       ELSE /\ result' = Fraction(IF negate THEN -nd[1] ELSE nd[1], nd[2])
            /\ pc' = "done"
            /\ UNCHANGED err
    /\ UNCHANGED <<fixed, pathVars, inputVars, posVars, matVars, nd, sidedVars>>

\* Lines 167-235 as a function of the arguments.
simplest_in_interval(l, r, il, ir) ==
    LET e == ArgumentError(l, r, il, ir)
        neg == NegateCond(r, ir)
        l1 == IF neg THEN FNeg(r) ELSE l
        r1 == IF neg THEN (IF IsNone(l) THEN None ELSE FNeg(l)) ELSE r
        il1 == IF neg THEN ir ELSE il
        ir1 == IF neg THEN il ELSE ir
        p == simplest_in_interval_pos(
                 IF IsNone(l1) THEN -1 ELSE l1[1],
                 IF IsNone(l1) THEN 0 ELSE l1[2],
                 il1,
                 IF IsNone(r1) THEN 1 ELSE r1[1],
                 IF IsNone(r1) THEN 0 ELSE r1[2],
                 ir1)
    IN  IF e # "" THEN [result |-> None, err |-> e]
        ELSE IF p[2] = 0 THEN [result |-> None, err |-> "ZeroDivisionError"]
        ELSE [result |-> Fraction(IF neg THEN -p[1] ELSE p[1], p[2]),
              err |-> ""]

---------------------------------------------------------------------------
\* src/simplefractions/sided_fraction.py.  The parameters left_endpoint and
\* right_endpoint are held in the variables left and right.

\* Line 42: the loop condition.
SidedLoopCond(ln_, ld_, lh_) == ld_ <= ln_ - B2I(lh_)

\* Lines 43-52: the body of the while loop, as a function of the locals.
SidedLoopBody(f) ==
    LET q == (f.ln - B2I(f.lh)) \div f.ld
    IN  [ln |-> f.rd,
         ld |-> f.rn - q * f.rd,
         lh |-> ~f.rh,
         rn |-> f.ld,
         rd |-> f.ln - q * f.ld,
         rh |-> ~f.lh,
         a |-> f.c,
         b |-> f.d,
         c |-> f.a + q * f.c,
         d |-> f.b + q * f.d]

SidedFrame ==
    [ln |-> ln, ld |-> ld, lh |-> lh, rn |-> rn, rd |-> rd, rh |-> rh,
     a |-> a, b |-> b, c |-> c, d |-> d]

\* Lines 42-53 run to completion: the pair returned, or <<0, 0>> when the
\* floor division of line 43 raises ZeroDivisionError.
RECURSIVE SidedRunLoop(_)
SidedRunLoop(f) ==
    IF ~SidedLoopCond(f.ln, f.ld, f.lh) THEN <<f.a + f.c, f.b + f.d>>
    ELSE IF f.ld = 0 THEN <<0, 0>>
    ELSE SidedRunLoop(SidedLoopBody(f))

\* Lines 9-53 as a function of the arguments.
sided_simplest_in_interval_pos(ln_, ld_, lh_, rn_, rd_, rh_) ==
    SidedRunLoop([ln |-> ln_ + ld_, ld |-> ld_, lh |-> ~lh_,
                  rn |-> rn_ + rd_, rd |-> rd_, rh |-> ~rh_,
                  a |-> -1, b |-> 1, c |-> 1, d |-> 0])

\* Mutant: the check of the right endpoint (lines 69-70) is missing.
SidedArgumentErrorNoRight(l, r, il, ir) ==
    IF IsNone(l) /\ il THEN "interval may not contain -infinity"
    ELSE IF ~(IsNone(l) \/ IsNone(r) \/ FLt(l, r) \/ (FEq(l, r) /\ il /\ ir))
         THEN "empty interval"
    ELSE ""

\* Lines 66-80: the message of the ValueError raised, "" when none is.
SidedArgumentError(l, r, il, ir) ==
    IF IsNone(l) /\ il THEN "interval may not contain -infinity"
    ELSE IF IsNone(r) /\ ir THEN "interval may not contain infinity"
    ELSE IF ~(IsNone(l) \/ IsNone(r) \/ FLt(l, r) \/ (FEq(l, r) /\ il /\ ir))
         THEN "empty interval"
    ELSE ""

\* Lines 83-87.
LeftNegative(l, il) ==
    IsNone(l) \/ FLt(l, Zero) \/ (FEq(l, Zero) /\ il)

\* Lines 88-92.
contains_zero(l, r, il, ir) ==
    LeftNegative(l, il)
    /\ (IsNone(r) \/ FLt(Zero, r) \/ (FEq(Zero, r) /\ ir))

\* Lines 66-80.
SidedRaise ==
    /\ pc = "start"
    /\ entry = "sided"
    /\ SidedArgumentError(left, right, include_left, include_right) # ""
    /\ pc' = "raised"
    /\ err' = SidedArgumentError(left, right, include_left, include_right)
    /\ UNCHANGED <<fixed, pathVars, inputVars, posVars, matVars, nd, sidedVars,
                   result>>

\* Lines 82-94: the interval contains zero.
SidedZero ==
    /\ pc = "start"
    /\ entry = "sided"
    /\ SidedArgumentError(left, right, include_left, include_right) = ""
    /\ contains_zero(left, right, include_left, include_right)
    /\ result' = Fraction(0, 1)
    /\ pc' = "done"
    /\ UNCHANGED <<fixed, pathVars, inputVars, posVars, matVars, nd, sidedVars,
                   err>>

\* Lines 96-126 and 39-40: reflect a negative interval and enter the core.
SidedCallCore ==
    /\ pc = "start"
    /\ entry = "sided"
    /\ SidedArgumentError(left, right, include_left, include_right) = ""
    /\ ~contains_zero(left, right, include_left, include_right)
    /\ left_negative' = LeftNegative(left, include_left)
    /\ left' = IF left_negative' THEN FNeg(right) ELSE left
    /\ right' = IF left_negative'
                THEN (IF IsNone(left) THEN None ELSE FNeg(left))
                ELSE right
    /\ include_left' = IF left_negative' THEN include_right ELSE include_left
    /\ include_right' = IF left_negative' THEN include_left ELSE include_right
    /\ LET left_numerator_ == IF IsNone(left') THEN -1 ELSE left'[1]
           left_denominator_ == IF IsNone(left') THEN 0 ELSE left'[2]
           right_numerator_ == IF IsNone(right') THEN 1 ELSE right'[1]
           right_denominator_ == IF IsNone(right') THEN 0 ELSE right'[2]
       IN  /\ ln' = left_numerator_ + left_denominator_
           /\ ld' = left_denominator_
           /\ lh' = ~(~include_left')
           /\ rn' = right_numerator_ + right_denominator_
           /\ rd' = right_denominator_
           /\ rh' = ~include_right'
    /\ a' = -1
    /\ b' = 1
    /\ c' = 1
    /\ d' = 0
    /\ iter' = 0
    /\ pc' = "sided_loop"
    /\ UNCHANGED <<fixed, pathVars, posVars, nd, result, err>>

\* Lines 42-52: one iteration of the while loop.
SidedLoopIter ==
    /\ pc = "sided_loop"
    /\ SidedLoopCond(ln, ld, lh)
    /\ iter < MaxIter
    /\ IF ld = 0
       THEN /\ pc' = "raised"
            /\ err' = "ZeroDivisionError"
            /\ UNCHANGED <<ln, ld, lh, rn, rd, rh, matVars>>
       ELSE LET f == SidedLoopBody(SidedFrame)
            IN  /\ ln' = f.ln
                /\ ld' = f.ld
                /\ lh' = f.lh
                /\ rn' = f.rn
                /\ rd' = f.rd
                /\ rh' = f.rh
                /\ a' = f.a
                /\ b' = f.b
                /\ c' = f.c
                /\ d' = f.d
                /\ iter' = iter + 1
                /\ UNCHANGED <<pc, err>>
    /\ UNCHANGED <<fixed, pathVars, inputVars, posVars, nd, left_negative,
                   result>>

\* Lines 53 and 127: the core returns (a + c, b + d); build the fraction.
SidedReturn ==
    /\ pc = "sided_loop"
    /\ ~SidedLoopCond(ln, ld, lh)
    /\ nd' = <<a + c, b + d>>
    /\ IF nd'[2] = 0
       THEN /\ pc' = "raised"
            /\ err' = "ZeroDivisionError"
            /\ UNCHANGED result
       ELSE /\ result' = Fraction(IF left_negative THEN -nd'[1] ELSE nd'[1],
                                  nd'[2])
            /\ pc' = "done"
            /\ UNCHANGED err
    /\ UNCHANGED <<fixed, pathVars, inputVars, posVars, matVars, sidedVars>>

\* Lines 56-127 as a function of the arguments.
sided_simplest_in_interval(l, r, il, ir) ==
    LET e == SidedArgumentError(l, r, il, ir)
        neg == LeftNegative(l, il)
        l1 == IF neg THEN FNeg(r) ELSE l
        r1 == IF neg THEN (IF IsNone(l) THEN None ELSE FNeg(l)) ELSE r
        il1 == IF neg THEN ir ELSE il
        ir1 == IF neg THEN il ELSE ir
        p == sided_simplest_in_interval_pos(
                 IF IsNone(l1) THEN -1 ELSE l1[1],
                 IF IsNone(l1) THEN 0 ELSE l1[2],
                 ~il1,
                 IF IsNone(r1) THEN 1 ELSE r1[1],
                 IF IsNone(r1) THEN 0 ELSE r1[2],
                 ir1)
    IN  IF e # "" THEN [result |-> None, err |-> e]
        ELSE IF contains_zero(l, r, il, ir)
             THEN [result |-> Fraction(0, 1), err |-> ""]
        ELSE IF p[2] = 0 THEN [result |-> None, err |-> "ZeroDivisionError"]
        ELSE [result |-> Fraction(IF neg THEN -p[1] ELSE p[1], p[2]),
              err |-> ""]

---------------------------------------------------------------------------
\* Binary floating-point values.  A float is the record of the three fields
\* of its encoding; struct.pack / struct.unpack convert between a float and
\* the integer holding its bit pattern.

RECURSIVE Pow2(_)
Pow2(k) == IF k = 0 THEN 1 ELSE 2 * Pow2(k - 1)

ExpMax == Pow2(ExpBits) - 1
ManSize == Pow2(ManBits)
Bias == Pow2(ExpBits - 1) - 1
\* The smallest positive subnormal is 1 / FloatScale.
FloatScale == Pow2(Bias - 1 + ManBits)

Floats == [sign : {0, 1}, exp : 0 .. ExpMax, man : 0 .. (ManSize - 1)]

\* struct.unpack("<Q", struct.pack("<d", x))[0]
Pack(f) == f.sign * Pow2(ExpBits + ManBits) + f.exp * ManSize + f.man

\* struct.unpack("<d", struct.pack("<Q", n))[0]
Unpack(n) ==
    [sign |-> (n \div Pow2(ExpBits + ManBits)) % 2,
     exp |-> (n \div ManSize) % Pow2(ExpBits),
     man |-> n % ManSize]

\* math.isinf, math.isnan
isinf(f) == f.exp = ExpMax /\ f.man = 0
isnan(f) == f.exp = ExpMax /\ f.man # 0

\* Mutant: only the infinities are rejected, a nan passes.
isfinite_not_inf(f) == ~isinf(f)

\* math.isfinite
isfinite(f) == f.exp # ExpMax

\* The magnitude of a finite float in units of 1 / FloatScale; for the
\* pattern of infinity this is the power of two following the largest float.
Significand(f) ==
    IF f.exp = 0 THEN f.man ELSE (ManSize + f.man) * Pow2(f.exp - 1)

\* fractions.Fraction(x) for a finite float x: its exact value.
FractionFromFloat(f) ==
    Fraction((IF f.sign = 1 THEN -1 ELSE 1) * Significand(f), FloatScale)

\* -x
FloatNeg(f) == [f EXCEPT !.sign = 1 - f.sign]

\* x < 0 and x == 0 for a float x.
FloatIsNegative(f) ==
    ~isnan(f) /\ f.sign = 1 /\ (f.exp # 0 \/ f.man # 0)
FloatIsZero(f) == f.exp = 0 /\ f.man = 0

\* x == y for floats.
FloatEq(f, g) ==
    /\ ~isnan(f)
    /\ ~isnan(g)
    /\ \/ (FloatIsZero(f) /\ FloatIsZero(g))
       \/ f = g

\* Mutant: the midpoint is taken without the division by two.
MidpointNoHalf(p, q) == Fraction(p[1] * q[2] + q[1] * p[2], p[2] * q[2])

\* Fraction arithmetic used by _interval_rounding_to.
Midpoint(p, q) == Fraction(p[1] * q[2] + q[1] * p[2], 2 * p[2] * q[2])
Reflect(p, l) == Fraction(2 * p[1] * l[2] - l[1] * p[2], p[2] * l[2])

Overflow == [sign |-> 0, exp |-> ExpMax, man |-> 1]

\* float(f) for a fraction f = p / q: the nearest float, ties to the float
\* with an even bit pattern; the record Overflow stands for OverflowError,
\* raised when the value rounds beyond the largest finite float.
RoundMagnitude(p, q) ==
    LET InfPattern == ExpMax * ManSize
        K(n) == Significand(Unpack(n))
        sp == p * FloatScale
    IN  IF p \div q >= Pow2(Bias + 1) THEN InfPattern
        ELSE LET lo == CHOOSE n \in 0 .. (InfPattern - 1) :
                           K(n) * q <= sp /\ sp < K(n + 1) * q
                 twice == 2 * sp
                 mid == (K(lo) + K(lo + 1)) * q
             IN  IF twice < mid THEN lo
                 ELSE IF twice > mid THEN lo + 1
                 ELSE IF lo % 2 = 0 THEN lo ELSE lo + 1

float(f) ==
    LET n == RoundMagnitude(Abs(f[1]), f[2])
    IN  IF n >= ExpMax * ManSize THEN Overflow
        ELSE [Unpack(n) EXCEPT !.sign = IF f[1] < 0 THEN 1 ELSE 0]

---------------------------------------------------------------------------
\* src/simplefractions/__init__.py

\* An endpoint is a fraction, or math.inf = <<1, 0>>, or -math.inf = <<-1, 0>>
\* (lines 116-125, _to_integer_ratio).
PosInf == <<1, 0>>
NegInf == <<-1, 0>>

\* Comparison of fractions and infinities.
XLt(p, q) == IF p[2] = 0 /\ q[2] = 0 THEN p[1] < q[1] ELSE FLt(p, q)
XEq(p, q) == IF p[2] = 0 /\ q[2] = 0 THEN p[1] = q[1] ELSE FEq(p, q)

\* A coefficient of a path is a nonnegative integer or math.inf; Stop is
\* the end of the generator.
Inf == -1
Stop == -2

\* Lines 167-173: the top of the while loop of _esb_path.
EsbLoopTop(n, m, side) ==
    IF m < n \/ side # 0
    THEN IF m = 0
         THEN [out |-> Inf,
               g |-> [n |-> n, d |-> m, side |-> side, r |-> 0,
                      st |-> "last"]]
         ELSE [out |-> (n - B2I(side <= 0)) \div m,
               g |-> [n |-> n, d |-> m, side |-> side,
                      r |-> (n - B2I(side <= 0)) % m, st |-> "yielded"]]
    ELSE [out |-> Stop,
          g |-> [n |-> n, d |-> m, side |-> side, r |-> 0, st |-> "done"]]

\* Lines 160-173: the generator _esb_path resumed once, from state g: the
\* coefficient it yields (or Stop) and its state when suspended again.
EsbNext(g) ==
    IF g.st = "new"
    THEN IF g.n < 0 \/ (g.n = 0 /\ g.side < 0)
         THEN [out |-> 0, g |-> [g EXCEPT !.st = "zero"]]
         ELSE EsbLoopTop(g.n + g.d, g.d, g.side)
    ELSE IF g.st = "zero" THEN EsbLoopTop(-g.n + g.d, g.d, -g.side)
    ELSE IF g.st = "yielded"
         THEN EsbLoopTop(g.d, g.r + B2I(g.side <= 0), -g.side)
    ELSE [out |-> Stop, g |-> [g EXCEPT !.st = "done"]]

\* Line 160: the generator _esb_path(x, side), not yet started.
esb_path(p, side) ==
    [n |-> p[1], d |-> p[2], side |-> side, r |-> 0, st |-> "new"]

\* Mutant: the common prefix ends with the larger coefficient.
CoefMax(q1, q2) ==
    IF q1 = Inf THEN q1 ELSE IF q2 = Inf THEN q2
    ELSE IF q1 < q2 THEN q2 ELSE q1

\* Line 196: min of two coefficients.
CoefMin(q1, q2) ==
    IF q1 = Inf THEN q2 ELSE IF q2 = Inf THEN q1
    ELSE IF q1 < q2 THEN q1 ELSE q2

\* Lines 182-185: the body of the loop of _from_esb_path for a finite q.
FromPathStep(f, q) ==
    IF q = 0 THEN [a |-> -f.a, b |-> f.b, c |-> -f.c, d |-> f.d]
    ELSE [a |-> f.c, b |-> f.d, c |-> f.a + q * f.c, d |-> f.b + q * f.d]

\* Lines 239-242.
PathEmpty(l, il, r, ir) ==
    LET left_side == IF il THEN 0 ELSE 1
        right_side == IF ir THEN 0 ELSE -1
    IN  XLt(r, l) \/ (XEq(l, r) /\ left_side > right_side)

\* Lines 201-232: _interval_rounding_to for a float f that is not nan.
RECURSIVE interval_rounding_to(_)
interval_rounding_to(f) ==
    IF FloatIsNegative(f)
    THEN LET i == interval_rounding_to(FloatNeg(f))
         IN  [left |-> FNeg(i.right), right |-> FNeg(i.left),
              closed |-> i.closed]
    ELSE IF FloatIsZero(f)
    THEN LET n == Pack([sign |-> 0, exp |-> 0, man |-> 0])
             x_plus == Unpack(n + 1)
             rt == Midpoint(FractionFromFloat(f), FractionFromFloat(x_plus))
         IN  [left |-> FNeg(rt), right |-> rt, closed |-> TRUE]
    ELSE LET n == Pack(f)
             x_plus == Unpack(n + 1)
             x_minus == Unpack(n - 1)
             lt == Midpoint(FractionFromFloat(f), FractionFromFloat(x_minus))
         IN  [left |-> lt,
              right |-> IF isinf(x_plus)
                        THEN Reflect(FractionFromFloat(f), lt)
                        ELSE Midpoint(FractionFromFloat(f),
                                      FractionFromFloat(x_plus)),
              closed |-> n % 2 = 0]

\* Lines 253-254: simplest_from_float rejects infinities and nans.
FloatRaise ==
    /\ pc = "start"
    /\ entry = "from_float"
    /\ ~isfinite(x)
    /\ pc' = "raised"
    /\ err' = "x should be finite"
    /\ UNCHANGED <<fixed, pathVars, inputVars, posVars, matVars, nd,
                   sidedVars, result>>

\* Lines 256-257: compute the rounding interval and call
\* simplest_in_interval(left, closed, right, closed).
FloatCall ==
    /\ pc = "start"
    /\ entry = "from_float"
    /\ isfinite(x)
    /\ IF x.exp = ExpMax
       THEN \* fractions.Fraction(x) raises for an infinity or a nan
            /\ pc' = "raised"
            /\ err' = "cannot convert to integer ratio"
            /\ UNCHANGED inputVars
       ELSE LET i == interval_rounding_to(x)
            IN  /\ left' = i.left
                /\ right' = i.right
                /\ include_left' = i.closed
                /\ include_right' = i.closed
                /\ pc' = "path_start"
                /\ UNCHANGED err
    /\ UNCHANGED <<fixed, pathVars, posVars, matVars, nd, sidedVars,
                   result>>

\* simplest_in_interval of __init__.py has been called.
PathCalled ==
    \/ (entry = "path" /\ pc = "start")
    \/ (entry = "from_float" /\ pc = "path_start")

\* Lines 239-242.
PathRaiseEmpty ==
    /\ PathCalled
    /\ PathEmpty(left, include_left, right, include_right)
    /\ pc' = "raised"
    /\ err' = "empty interval"
    /\ UNCHANGED <<fixed, pathVars, inputVars, posVars, matVars, nd,
                   sidedVars, result>>

\* Lines 239-246 and 180: create the two generators and enter
\* _from_esb_path.
PathEnter ==
    /\ PathCalled
    /\ ~PathEmpty(left, include_left, right, include_right)
    /\ path1' = esb_path(left, IF include_left THEN 0 ELSE 1)
    /\ path2' = esb_path(right, IF include_right THEN 0 ELSE -1)
    /\ a' = -1
    /\ b' = 1
    /\ c' = 1
    /\ d' = 0
    /\ iter' = 0
    /\ float_matrix' = FALSE
    /\ pc' = "path_loop"
    /\ UNCHANGED <<fixed, inputVars, posVars, nd, sidedVars, result, err>>

\* Lines 181-185 and 194-198: one iteration of the loop of _from_esb_path,
\* which draws one coefficient of _common_prefix, which draws one
\* coefficient from each path (zip stops at the first exhausted path).
PathStep ==
    /\ pc = "path_loop"
    /\ LET o1 == EsbNext(path1)
           o2 == EsbNext(path2)
           q == IF o1.out = o2.out THEN o1.out ELSE CoefMin(o1.out, o2.out)
           f == FromPathStep([a |-> a, b |-> b, c |-> c, d |-> d], q)
       IN  /\ path1' = o1.g
           /\ path2' = IF o1.out = Stop THEN path2 ELSE o2.g
           /\ IF o1.out = Stop \/ o2.out = Stop
              THEN /\ pc' = "path_return"
                   /\ UNCHANGED <<matVars, float_matrix>>
              ELSE /\ pc' = IF o1.out = o2.out THEN "path_loop"
                            ELSE "path_return"
                   /\ iter' = iter + 1
                   /\ IF q = Inf
                      THEN /\ float_matrix' = TRUE
                           /\ a' = c
                           /\ b' = d
                           /\ UNCHANGED <<c, d>>
                      ELSE /\ a' = f.a
                           /\ b' = f.b
                           /\ c' = f.c
                           /\ d' = f.d
                           /\ UNCHANGED float_matrix
    /\ UNCHANGED <<fixed, inputVars, posVars, nd, sidedVars, result, err>>

\* Line 187: build the result fraction.
PathReturn ==
    /\ pc = "path_return"
    /\ IF float_matrix
       THEN /\ pc' = "raised"
            /\ err' = "TypeError"
            /\ UNCHANGED result
       ELSE IF b + d = 0
       THEN /\ pc' = "raised"
            /\ err' = "ZeroDivisionError"
            /\ UNCHANGED result
       ELSE /\ result' = Fraction(a + c, b + d)
            /\ pc' = "done"
            /\ UNCHANGED err
    /\ UNCHANGED <<fixed, pathVars, inputVars, posVars, matVars, nd,
                   sidedVars>>

---------------------------------------------------------------------------
\* src/rational_from_float.py: compressed_path and from_compressed_path.
\* The arguments x and side are held in call; the generator returned by
\* compressed_path is held in path1 and the matrix of from_compressed_path
\* in a, b, c, d.

\* Lines 189-204: the generator compressed_path(x, side), not yet started:
\* _compressed_path_sided(x, True) for side 1, _compressed_path_sided(x,
\* False) for side -1, else _compressed_path_unsided(x).
compressed_path(p, sd) ==
    [a |-> p[1], b |-> p[2], tt |-> sd, sided |-> sd \in {-1, 1},
     ss |-> sd = 1, st |-> "new"]

\* Lines 130-131 and 165-170: the message of the ValueError raised when the
\* generator is first resumed, "" when none is.
CompressedPathError(g) ==
    IF ~g.sided
    THEN (IF g.a > 0 THEN "" ELSE "Input must be positive")
    ELSE IF g.ss
    THEN (IF g.a >= 0 THEN "" ELSE "Input must be nonnegative")
    ELSE (IF g.a > 0 THEN "" ELSE "Input must be positive or infinity")

\* Lines 141-148 and 174-181: the generator resumed once, from state g: the
\* count it yields (or Stop) and its state when suspended again.
CompressedPathNext(g) ==
    LET e == B2I(0 <= g.tt)
        more == IF g.sided THEN g.a # 0 ELSE g.a # g.b
    IN  IF g.st \in {"new", "yielded"}
        THEN IF more
             THEN [out |-> (g.b - e) \div g.a,
                   g |-> [g EXCEPT !.a = ((g.b - e) % g.a) + e,
                                   !.b = g.a,
                                   !.tt = -g.tt,
                                   !.st = "yielded"]]
             ELSE IF g.tt # 0
             THEN [out |-> Inf, g |-> [g EXCEPT !.st = "last"]]
             ELSE [out |-> Stop, g |-> [g EXCEPT !.st = "done"]]
        ELSE [out |-> Stop, g |-> [g EXCEPT !.st = "done"]]

\* Mutant: a count of math.inf leaves the matrix as it is.
FromCompressedStepIgnoresInf(f, count) ==
    IF count = Inf THEN f
    ELSE [a |-> f.b + count * f.a, b |-> f.a,
          c |-> f.d + count * f.c, d |-> f.c]

\* Lines 212-216: the body of the loop of from_compressed_path.
FromCompressedStep(f, count) ==
    IF count = Inf THEN [a |-> f.a, b |-> f.a, c |-> f.c, d |-> f.c]
    ELSE [a |-> f.b + count * f.a, b |-> f.a,
          c |-> f.d + count * f.c, d |-> f.c]

\* Lines 189-211: call compressed_path and enter from_compressed_path.
CompressedEnter ==
    /\ pc = "start"
    /\ entry = "compressed"
    /\ path1' = compressed_path(call.x, call.side)
    /\ a' = 0
    /\ b' = 1
    /\ c' = 1
    /\ d' = 0
    /\ iter' = 0
    /\ pc' = "cpath_loop"
    /\ UNCHANGED <<fixed, path2, float_matrix, inputVars, posVars, nd,
                   sidedVars, result, err>>

\* Lines 130-131 and 165-170: the first resumption of the generator raises.
CompressedRaise ==
    /\ pc = "cpath_loop"
    /\ path1.st = "new"
    /\ CompressedPathError(path1) # ""
    /\ pc' = "raised"
    /\ err' = CompressedPathError(path1)
    /\ UNCHANGED <<fixed, pathVars, inputVars, posVars, matVars, nd,
                   sidedVars, result>>

\* Lines 212-216: one iteration of the loop of from_compressed_path, which
\* draws one count from the generator.
CompressedStep ==
    /\ pc = "cpath_loop"
    /\ path1.st = "new" => CompressedPathError(path1) = ""
    /\ iter < MaxIter
    /\ LET o == CompressedPathNext(path1)
           f == FromCompressedStep([a |-> a, b |-> b, c |-> c, d |-> d],
                                   o.out)
       IN  /\ path1' = o.g
           /\ IF o.out = Stop
              THEN /\ pc' = "cpath_return"
                   /\ UNCHANGED matVars
              ELSE /\ a' = f.a
                   /\ b' = f.b
                   /\ c' = f.c
                   /\ d' = f.d
                   /\ iter' = iter + 1
                   /\ UNCHANGED pc
    /\ UNCHANGED <<fixed, path2, float_matrix, inputVars, posVars, nd,
                   sidedVars, result, err>>

\* Line 217: build the result fraction.
CompressedReturn ==
    /\ pc = "cpath_return"
    /\ IF c + d = 0
       THEN /\ pc' = "raised"
            /\ err' = "ZeroDivisionError"
            /\ UNCHANGED result
       ELSE /\ result' = Fraction(a + b, c + d)
            /\ pc' = "done"
            /\ UNCHANGED err
    /\ UNCHANGED <<fixed, pathVars, inputVars, posVars, matVars, nd,
                   sidedVars>>

\* The arguments of compressed_path: a fraction and a side.
CompressedCalls == [x : Fractions, side : {-1, 0, 1}]

---------------------------------------------------------------------------
\* The calls under study

Intervals ==
    {[left |-> l, right |-> r, include_left |-> il, include_right |-> ir] :
        l \in Endpoints, r \in Endpoints, il \in BOOLEAN, ir \in BOOLEAN}

PathIntervals ==
    {[left |-> l, right |-> r, include_left |-> il, include_right |-> ir] :
        l \in Fractions \cup {NegInf, PosInf},
        r \in Fractions \cup {NegInf, PosInf},
        il \in BOOLEAN, ir \in BOOLEAN}

NoInterval ==
    [left |-> None, right |-> None,
     include_left |-> FALSE, include_right |-> FALSE]

PlusZero == [sign |-> 0, exp |-> 0, man |-> 0]

InitLocals ==
    /\ negate = FALSE
    /\ left_numerator = 0 /\ left_denominator = 0 /\ left_closed = FALSE
    /\ right_numerator = 0 /\ right_denominator = 0 /\ right_closed = FALSE
    /\ s = 0 /\ t = 0 /\ u = 0 /\ v = 0
    /\ st_closed = FALSE /\ uv_closed = FALSE
    /\ a = 0 /\ b = 0 /\ c = 0 /\ d = 0
    /\ iter = 0
    /\ nd = None
    /\ left_negative = FALSE
    /\ ln = 0 /\ ld = 0 /\ lh = FALSE /\ rn = 0 /\ rd = 0 /\ rh = FALSE
    /\ path1 = esb_path(None, 0)
    /\ path2 = esb_path(None, 0)
    /\ float_matrix = FALSE
    /\ pc = "start"
    /\ result = None
    /\ err = ""

Init ==
    /\ entry \in {"matrix", "sided", "path", "from_float", "compressed"}
    /\ call \in IF entry = "from_float" THEN {NoInterval}
                ELSE IF entry = "path" THEN PathIntervals
                ELSE IF entry = "compressed" THEN CompressedCalls
                ELSE Intervals
    /\ x \in IF entry = "from_float" THEN Floats ELSE {PlusZero}
    /\ left = IF entry = "compressed" THEN None ELSE call.left
    /\ right = IF entry = "compressed" THEN None ELSE call.right
    /\ include_left = IF entry = "compressed" THEN FALSE
                      ELSE call.include_left
    /\ include_right = IF entry = "compressed" THEN FALSE
                       ELSE call.include_right
    /\ InitLocals

Next ==
    \/ Raise
    \/ CallCore
    \/ LoopIter
    \/ PosReturn
    \/ Return
    \/ SidedRaise
    \/ SidedZero
    \/ SidedCallCore
    \/ SidedLoopIter
    \/ SidedReturn
    \/ FloatRaise
    \/ FloatCall
    \/ PathRaiseEmpty
    \/ PathEnter
    \/ PathStep
    \/ PathReturn
    \/ CompressedEnter
    \/ CompressedRaise
    \/ CompressedStep
    \/ CompressedReturn

Spec == Init /\ [][Next]_vars

\* The program is sequential: a call that can take a step takes it.
LiveSpec ==
    Init /\ [][Next]_vars /\ WF_vars(LoopIter) /\ WF_vars(PosReturn)

---------------------------------------------------------------------------
\* Properties

\* The fraction f lies in the interval cl, respecting the inclusion flags.
InInterval(f, cl) ==
    /\ \/ IsNone(cl.left)
       \/ FLt(cl.left, f)
       \/ (cl.include_left /\ FEq(cl.left, f))
    /\ \/ IsNone(cl.right)
       \/ FLt(f, cl.right)
       \/ (cl.include_right /\ FEq(f, cl.right))

\* An infinite endpoint of cl is marked included.
InfIncluded(cl) ==
    \/ (IsNone(cl.left) /\ cl.include_left)
    \/ (IsNone(cl.right) /\ cl.include_right)

\* Both endpoints are finite and no point lies between them.
EmptyCase(cl) ==
    /\ ~IsNone(cl.left)
    /\ ~IsNone(cl.right)
    /\ \/ FLt(cl.right, cl.left)
       \/ (FEq(cl.left, cl.right) /\ ~(cl.include_left /\ cl.include_right))

ValidNonempty(cl) == ~InfIncluded(cl) /\ ~EmptyCase(cl)

\* The interval cl contains zero.
ContainsZero(cl) ==
    /\ \/ IsNone(cl.left)
       \/ FLt(cl.left, Zero)
       \/ (FEq(cl.left, Zero) /\ cl.include_left)
    /\ \/ IsNone(cl.right)
       \/ FLt(Zero, cl.right)
       \/ (FEq(cl.right, Zero) /\ cl.include_right)

\* The mirror image of the interval cl under negation.
Mirror(cl) ==
    [left |-> IF IsNone(cl.right) THEN None ELSE FNeg(cl.right),
     right |-> IF IsNone(cl.left) THEN None ELSE FNeg(cl.left),
     include_left |-> cl.include_right,
     include_right |-> cl.include_left]

\* C1: for every valid nonempty interval _simplest_in_interval returns a
\* fraction, and the fraction returned lies in the interval: left < result
\* (<= when include_left) and result < right (<= when include_right); the
\* degenerate closed interval [x, x] returns x.
C1_ResultInInterval ==
    entry = "matrix" =>
        /\ pc = "done" => InInterval(result, call)
        /\ pc = "done" /\ ~IsNone(call.left) /\ call.left = call.right
           => result = call.left
        /\ ValidNonempty(call) => pc # "raised"

C1_Witness ==
    /\ entry = "matrix"
    /\ pc = "done"
    /\ call.left = call.right
    /\ result[2] > 1

\* C2: the result n/d of _simplest_in_interval is the simplest fraction of
\* the interval: every i/j (j > 0) in the interval has |i| >= |n| and j >= d,
\* and only the result itself attains both.  A fraction with j < d in an
\* interval with endpoints bounded by MaxNum has |i| < d * MaxNum, and one
\* with |i| < |n| in an interval off zero has j < |n| * MaxDen, so the two
\* ranges below cover every candidate.
C2_Simplest ==
    entry = "matrix" /\ pc = "done" =>
        LET n == result[1]
            m == result[2]
        IN  /\ \A j \in 1 .. (m - 1) :
                   \A i \in -(m * (MaxNum + 1)) .. (m * (MaxNum + 1)) :
                       ~InInterval(<<i, j>>, call)
            /\ \A i \in -(Abs(n) - 1) .. (Abs(n) - 1) :
                   \A j \in 1 .. (Abs(n) * MaxDen + 1) :
                       ~InInterval(<<i, j>>, call)
            /\ InInterval(<<-n, m>>, call) => n = 0

C2_Witness ==
    /\ entry = "matrix"
    /\ pc = "done"
    /\ iter >= 3
    /\ result[2] > MaxDen
    /\ ~call.include_left
    /\ ~call.include_right

\* C3: _simplest_in_interval raises "empty interval", returning no
\* fraction, exactly when both endpoints are finite and left > right, or
\* left = right with one of the inclusion flags false; an interval with an
\* unbounded endpoint is never reported empty.
C3_EmptyInterval ==
    entry = "matrix" /\ pc # "start" =>
        /\ (err = "empty interval") <=> EmptyCase(call)
        /\ err = "empty interval" => pc = "raised" /\ result = None
        /\ IsNone(call.left) \/ IsNone(call.right) => err # "empty interval"

C3_Witness ==
    /\ entry = "matrix"
    /\ pc = "raised"
    /\ err = "empty interval"
    /\ call.left = call.right
    /\ call.include_left
    /\ ~call.include_right

\* C4: with an unbounded endpoint marked included, _simplest_in_interval
\* (in _simplest_in_interval.py and in sided_fraction.py) raises an error
\* and the core search is never entered, whatever the other endpoint and
\* flag are.
C4_InfiniteIncluded ==
    entry \in {"matrix", "sided"} /\ InfIncluded(call) =>
        /\ pc \in {"start", "raised"}
        /\ pc = "raised" =>
               err \in {"interval may not contain -infinity",
                        "interval may not contain infinity"}
        /\ result = None
        /\ iter = 0

C4_Witness ==
    /\ entry = "sided"
    /\ pc = "raised"
    /\ IsNone(call.right)
    /\ call.include_right
    /\ ~IsNone(call.left)
    /\ FLt(Zero, call.left)
    /\ err = "interval may not contain infinity"

\* C5: when the interval contains zero the result is exactly 0/1; in
\* _simplest_in_interval.py the core loop executes no iteration, and in
\* sided_fraction.py the core is not entered at all.
C5_ZeroContained ==
    entry \in {"matrix", "sided"} /\ ContainsZero(call) /\ ~InfIncluded(call)
    =>  /\ pc # "raised"
        /\ pc = "done" => result = <<0, 1>>
        /\ iter = 0
        /\ entry = "sided" => pc \in {"start", "done"}
        /\ entry = "matrix" => pc \in {"start", "loop", "returned", "done"}

C5_Witness ==
    /\ entry = "matrix"
    /\ pc = "done"
    /\ call.left = Zero
    /\ call.include_left
    /\ ~IsNone(call.right)
    /\ iter = 0
    /\ result = <<0, 1>>

\* C6: negation symmetry: the result for the mirror image
\* (-right, -left, include_right, include_left) is minus the result for
\* (left, right, include_left, include_right).
C6_NegationSymmetry ==
    entry = "matrix" /\ pc = "done" =>
        LET cm == Mirror(call)
            rm == simplest_in_interval(cm.left, cm.right,
                                       cm.include_left, cm.include_right)
        IN  /\ rm.err = ""
            /\ rm.result = FNeg(result)

C6_Witness ==
    /\ entry = "matrix"
    /\ pc = "done"
    /\ negate
    /\ iter >= 2
    /\ result[1] < 0

\* The point left + k * (right - left) / GridSteps of the interval of f.
GridPoint(l, r, k) ==
    Fraction((GridSteps - k) * l[1] * r[2] + k * r[1] * l[2],
             GridSteps * l[2] * r[2])

LargestFloat == [sign |-> 0, exp |-> ExpMax - 1, man |-> ManSize - 1]

\* C7: for every finite float x (zeros, subnormals and the largest finite
\* float included) simplest_from_float(x) returns a fraction, and
\* converting it back with float() gives a float equal to x.
C7_FloatRoundTrip ==
    entry = "from_float" =>
        /\ isfinite(x) => pc # "raised"
        /\ pc = "done" => FloatEq(float(result), x)

C7_Witness ==
    /\ entry = "from_float"
    /\ pc = "done"
    /\ x = LargestFloat
    /\ iter >= 1

\* C8: simplest_from_float raises "x should be finite" for +infinity,
\* -infinity and nan, before any rounding interval is computed and without
\* returning a fraction.
C8_NonFinite ==
    entry = "from_float" /\ ~(x.exp # ExpMax) =>
        /\ pc \in {"start", "raised"}
        /\ pc = "raised" => err = "x should be finite"
        /\ left = None
        /\ right = None
        /\ result = None

C8_Witness ==
    /\ entry = "from_float"
    /\ pc = "raised"
    /\ x.exp = ExpMax
    /\ x.man # 0
    /\ err = "x should be finite"

\* C9: for every finite float x the triple (left, right, closed) of
\* _interval_rounding_to(x) is the set of reals that round to x:
\* left < x < right, the sampled points strictly between left and right
\* round to x (float() is monotone and x is the only float within the
\* bounds), the points just outside do not, both endpoints round to x
\* when closed and neither does otherwise, closed holds iff the bit pattern
\* of x is even, and for the largest finite float right = 2x - left.
C9_RoundingInterval ==
    entry = "from_float" /\ pc \notin {"start", "raised"} =>
        LET xv == FractionFromFloat(x)
            closed == include_left
        IN  /\ include_left = include_right
            /\ FLt(left, xv)
            /\ FLt(xv, right)
            /\ \A k \in 1 .. (GridSteps - 1) :
                   FloatEq(float(GridPoint(left, right, k)), x)
            /\ \A g \in Floats :
                   (/\ isfinite(g)
                    /\ FLe(left, FractionFromFloat(g))
                    /\ FLe(FractionFromFloat(g), right)) => FloatEq(g, x)
            /\ ~FloatEq(float(GridPoint(left, right, -1)), x)
            /\ ~FloatEq(float(GridPoint(left, right, GridSteps + 1)), x)
            /\ closed => /\ FloatEq(float(left), x)
                         /\ FloatEq(float(right), x)
            /\ ~closed => /\ ~FloatEq(float(left), x)
                          /\ ~FloatEq(float(right), x)
            /\ closed <=> (Pack(x) % 2 = 0)
            /\ x = LargestFloat => right = Reflect(xv, left)

C9_Witness ==
    /\ entry = "from_float"
    /\ pc = "path_start"
    /\ x = [sign |-> 1, exp |-> 0, man |-> 1]
    /\ ~include_left
    /\ FLt(left, right)

\* C10: the core search terminates: once _simplest_in_interval_pos has been
\* entered (with arguments satisfying its preconditions, as every call of
\* the normaliser does) it reaches its return statement.
C10_Terminates ==
    (entry = "matrix" /\ pc = "loop") ~> (pc = "returned")

C10_Witness ==
    /\ entry = "matrix"
    /\ pc = "returned"
    /\ iter >= 4
    /\ ~left_closed
    /\ right_denominator # 0

---------------------------------------------------------------------------
\* Properties of the core loop

\* The core _simplest_in_interval_pos has been entered and has not raised.
InCore == entry = "matrix" /\ pc \in {"loop", "returned", "done"}

\* The step is one iteration of the while loop of the core.
IterStep == entry = "matrix" /\ pc = "loop" /\ iter' = iter + 1

\* The step is the return of the core.
ReturnStep == entry = "matrix" /\ pc = "loop" /\ pc' = "returned"

\* C11: the pair (a + b, c + d) returned by _simplest_in_interval_pos is in
\* lowest terms with a denominator of at least 1, so that building the
\* result fraction from it performs no reduction.
C11_LowestTerms ==
    entry = "matrix" /\ pc \in {"returned", "done"} =>
        /\ nd = <<a + b, c + d>>
        /\ nd[2] >= 1
        /\ GCD(Abs(nd[1]), nd[2]) = 1
        /\ pc = "done" => result = <<IF negate THEN -nd[1] ELSE nd[1], nd[2]>>

C11_Witness ==
    /\ entry = "matrix"
    /\ pc = "done"
    /\ iter >= 3
    /\ nd[2] >= 3
    /\ nd[1] >= 2

\* Test lines 228-251 and 288: the positive fractions f in lowest terms that
\* are converted to a float, each with its float x = float(f).
RoundTripFractions ==
    {f \in (1 .. MaxRoundNum) \X (1 .. MaxRoundDen) : GCD(f[1], f[2]) = 1}
RoundTable == {[f |-> f, x |-> float(f)] : f \in RoundTripFractions}

\* C12: for every fraction f = n/d with n, d positive and coprime, if x is
\* the float nearest to f (ties to even) then g = simplest_from_float(x)
\* has |numerator(g)| <= n and denominator(g) <= d.
C12_RoundTripSimpler ==
    entry = "from_float" /\ pc = "done" =>
        \A r \in RoundTable :
            r.x = x =>
                /\ Abs(result[1]) <= r.f[1]
                /\ result[2] <= r.f[2]

C12_Witness ==
    /\ entry = "from_float"
    /\ pc = "done"
    /\ iter >= 3
    /\ \E r \in RoundTable :
           /\ r.x = x
           /\ result[1] < r.f[1]
           /\ result[2] < r.f[2]

\* C13: simplest_in_interval of __init__.py fails with an error and returns
\* no fraction whenever an infinite endpoint is marked included (left is
\* -inf with include_left, or right is inf with include_right), whatever
\* the other endpoint.
C13_PathInfiniteIncluded ==
    /\ entry = "path"
    /\ \/ (call.left = NegInf /\ call.include_left)
       \/ (call.right = PosInf /\ call.include_right)
    => /\ pc # "done"
       /\ result = None

\* C14: in _simplest_in_interval_pos the determinant a*d - b*c is 1 when
\* the number of iterations executed is even (the initial state included)
\* and -1 when it is odd, in every state up to and including the return.
C14_Determinant ==
    InCore => a * d - b * c = (IF iter % 2 = 0 THEN 1 ELSE -1)

C14_Witness ==
    /\ entry = "matrix"
    /\ pc = "loop"
    /\ iter = 3
    /\ a * d - b * c = -1
    /\ LoopCond(s, t, st_closed)

\* The equations of the docstring (lines 47-66) for iteration number k:
\* for an even k the matrix maps s/t to the left input and u/v to the right
\* input, for an odd k it maps s/t to the right input and u/v to the left.
MapsBack(k) ==
    IF k % 2 = 0
    THEN /\ a * s + b * t = left_numerator
         /\ c * s + d * t = left_denominator
         /\ a * u + b * v = right_numerator
         /\ c * u + d * v = right_denominator
         /\ st_closed = left_closed
         /\ uv_closed = right_closed
    ELSE /\ a * s + b * t = right_numerator
         /\ c * s + d * t = right_denominator
         /\ a * u + b * v = left_numerator
         /\ c * u + d * v = left_denominator
         /\ st_closed = right_closed
         /\ uv_closed = left_closed

\* C15 as stated: the matrix maps the current endpoints back onto the
\* original ones at the start and at the end of every even-numbered
\* iteration, and with the roles of the left and right inputs exchanged at
\* (the start and the end of) every odd-numbered iteration.
C15_StartAndEnd ==
    [][IterStep => /\ MapsBack(iter)
                   /\ (a' * s' + b' * t' =
                          IF iter % 2 = 0 THEN left_numerator
                          ELSE right_numerator)
                   /\ (c' * s' + d' * t' =
                          IF iter % 2 = 0 THEN left_denominator
                          ELSE right_denominator)
                   /\ (a' * u' + b' * v' =
                          IF iter % 2 = 0 THEN right_numerator
                          ELSE left_numerator)
                   /\ (c' * u' + d' * v' =
                          IF iter % 2 = 0 THEN right_denominator
                          ELSE left_denominator)
                   /\ (st_closed' =
                          IF iter % 2 = 0 THEN left_closed ELSE right_closed)
                   /\ (uv_closed' =
                          IF iter % 2 = 0 THEN right_closed ELSE left_closed)
      ]_vars

\* C15, amended: the matrix maps the current endpoints back onto the
\* original ones at the start of every even-numbered iteration, that is
\* after an even number of iterations (the initial state and the return
\* included): a*s + b*t, c*s + d*t, a*u + b*v and c*u + d*v are
\* left_numerator, left_denominator, right_numerator and right_denominator,
\* st_closed is left_closed and uv_closed is right_closed; after an odd
\* number of iterations, so also at the end of an even-numbered iteration,
\* the same holds with the roles of the left and right inputs exchanged.
C15_MatrixMapsBack ==
    InCore => MapsBack(iter)

C15_Witness ==
    /\ entry = "matrix"
    /\ pc = "loop"
    /\ iter = 3
    /\ left_closed
    /\ ~right_closed
    /\ right_denominator >= 2
    /\ a * s + b * t = right_numerator

\* C16: for every valid interval that does not contain zero, before and
\* after every iteration of the core loop the transformed interval stays
\* nonempty and nonnegative: s*v < u*t or (s*v = u*t and st_closed and
\* uv_closed), and 0 < s or (s = 0 and not st_closed).
C16_TransformedInterval ==
    InCore /\ ~ContainsZero(call) =>
        /\ \/ s * v < u * t
           \/ (s * v = u * t /\ st_closed /\ uv_closed)
        /\ \/ 0 < s
           \/ (s = 0 /\ ~st_closed)

C16_Witness ==
    /\ entry = "matrix"
    /\ pc = "loop"
    /\ ~ContainsZero(call)
    /\ iter >= 2
    /\ s * v = u * t
    /\ st_closed

\* The core of sided_fraction.py has been entered and has not raised.
SidedInCore ==
    /\ entry = "sided"
    /\ \/ pc = "sided_loop"
       \/ (pc = "done" /\ nd # None)

\* C17 as stated: a, b, c and d are nonnegative in every state of the core,
\* from its initialisation through every loop iteration to the return.
C17_Nonnegative ==
    InCore \/ SidedInCore => a >= 0 /\ b >= 0 /\ c >= 0 /\ d >= 0

\* C17, amended: a, b, c and d are nonnegative in every state of the core
\* after its first loop iteration, through the return; before the first
\* iteration the matrix is (1, -1, 0, 1) in _simplest_in_interval.py and
\* (-1, 1, 1, 0) in sided_fraction.py, and a core that runs no iteration
\* returns with that matrix.
C17_NonnegativeAfterFirst ==
    InCore \/ SidedInCore =>
        IF iter = 0
        THEN <<a, b, c, d>> = IF entry = "matrix" THEN <<1, -1, 0, 1>>
                              ELSE <<-1, 1, 1, 0>>
        ELSE a >= 0 /\ b >= 0 /\ c >= 0 /\ d >= 0

C17_Witness ==
    /\ entry = "matrix"
    /\ pc = "loop"
    /\ iter = 1
    /\ a = 0
    /\ LoopCond(s, t, st_closed)

\* The step is one iteration of the while loop of the core of
\* sided_fraction.py.
SidedIterStep == entry = "sided" /\ pc = "sided_loop" /\ iter' = iter + 1

\* The endpoint playing the left role in the current iteration is included
\* in the interval: the roles are exchanged by every iteration.
LeftRoleIncluded ==
    IF entry = "matrix"
    THEN (IF iter % 2 = 0 THEN left_closed ELSE right_closed)
    ELSE (IF iter % 2 = 0 THEN include_left ELSE include_right)

\* The step updates the endpoints and the matrix with the quotient k
\* (lines 161-162; sided_fraction.py lines 44-52).
IterUses(k) ==
    IF entry = "matrix"
    THEN /\ s' = v
         /\ t' = u - k * v
         /\ u' = t
         /\ v' = s - k * t
         /\ a' = b + k * a
         /\ b' = a
         /\ c' = d + k * c
         /\ d' = c
    ELSE /\ ln' = rd
         /\ ld' = rn - k * rd
         /\ rn' = ld
         /\ rd' = ln - k * ld
         /\ a' = c
         /\ b' = d
         /\ c' = a + k * c
         /\ d' = b + k * d

\* C18 as stated: in every iteration of the core loop the quotient is
\* floor((n - e) / m), n and m the numerator and denominator of the endpoint
\* playing the left role, e = 0 when that endpoint is included and e = 1
\* when it is excluded.
C18_QuotientAsStated ==
    [][IterStep \/ SidedIterStep =>
          LET n == IF entry = "matrix" THEN s ELSE ln
              m == IF entry = "matrix" THEN t ELSE ld
              e == IF LeftRoleIncluded THEN 0 ELSE 1
          IN  IterUses((n - e) \div m)]_vars

\* C18, amended: in every iteration of the core loop the quotient is
\* floor((n - e) / m), n and m the numerator and denominator of the endpoint
\* playing the left role, e = 1 when that endpoint is included and e = 0
\* when it is excluded.
C18_Quotient ==
    [][IterStep \/ SidedIterStep =>
          LET n == IF entry = "matrix" THEN s ELSE ln
              m == IF entry = "matrix" THEN t ELSE ld
              e == IF LeftRoleIncluded THEN 1 ELSE 0
          IN  IterUses((n - e) \div m)]_vars

\* After a first iteration whose left endpoint is included and whose
\* denominator divides its numerator, so that the adjustment changes q.
C18_Witness ==
    /\ entry = "matrix"
    /\ pc = "loop"
    /\ iter = 1
    /\ left_closed
    /\ left_numerator >= 2
    /\ u = v

\* C19: the core loop stops exactly when the transformed interval contains
\* 1: when _simplest_in_interval_pos returns, s < t or (s = t and
\* st_closed), and v < u or (v = u and uv_closed); and whenever the loop
\* runs another iteration, the left bound is above 1 or equals 1 and is
\* excluded.
C19_StopsAtOne ==
    [][/\ ReturnStep => /\ s < t \/ (s = t /\ st_closed)
                        /\ v < u \/ (v = u /\ uv_closed)
       /\ IterStep => t < s \/ (t = s /\ ~st_closed)]_vars

C19_Witness ==
    /\ entry = "matrix"
    /\ pc = "returned"
    /\ iter >= 2
    /\ s = t
    /\ st_closed
    /\ v < u

\* The sum of the magnitudes of the four endpoint numerators and
\* denominators.
EndpointSum == Abs(s) + Abs(t) + Abs(u) + Abs(v)

\* C20: across every iteration of the core loop on a valid input the sum
\* |s| + |t| + |u| + |v| never increases, and it strictly decreases on every
\* iteration other than possibly the first.
C20_SumDecreases ==
    [][IterStep => /\ EndpointSum' <= EndpointSum
                   /\ iter >= 1 => EndpointSum' < EndpointSum]_vars

C20_Witness ==
    /\ entry = "matrix"
    /\ pc = "loop"
    /\ iter = 4
    /\ EndpointSum >= 2
    /\ LoopCond(s, t, st_closed)

---------------------------------------------------------------------------
\* Equivalence of the formulations

\* The outcome of the call under study once it has ended: the fraction
\* returned, or the error raised.
Ended == pc \in {"done", "raised"}
Outcome == [result |-> IF pc = "done" THEN result ELSE None, err |-> err]

\* C21: the two matrix-based normalisers are observationally equivalent: for
\* every input (left, right, include_left, include_right) the
\* _simplest_in_interval of sided_fraction.py and the one of
\* _simplest_in_interval.py either both raise an error (the same one) or
\* both return the same fraction.
C21_NormalisersAgree ==
    /\ entry = "matrix" /\ Ended =>
           Outcome = sided_simplest_in_interval(
                         call.left, call.right,
                         call.include_left, call.include_right)
    /\ entry = "sided" /\ Ended =>
           Outcome = simplest_in_interval(
                         call.left, call.right,
                         call.include_left, call.include_right)

C21_Witness ==
    /\ entry = "sided"
    /\ pc = "done"
    /\ left_negative
    /\ iter >= 3
    /\ result = simplest_in_interval(
                    call.left, call.right,
                    call.include_left, call.include_right).result

\* The call cl of simplest_in_interval of __init__.py is on a valid
\* interval: -math.inf or a fraction on the left, a fraction or math.inf on
\* the right, infinite endpoints not included, and the interval nonempty.
PathValid(cl) ==
    /\ cl.left # PosInf
    /\ cl.right # NegInf
    /\ ~(cl.left = NegInf /\ cl.include_left)
    /\ ~(cl.right = PosInf /\ cl.include_right)
    /\ \/ cl.left = NegInf
       \/ cl.right = PosInf
       \/ FLt(cl.left, cl.right)
       \/ (FEq(cl.left, cl.right) /\ cl.include_left /\ cl.include_right)

\* The same interval as arguments of _simplest_in_interval: an infinite
\* endpoint is an omitted one.
Omitted(p) == IF p[2] = 0 THEN None ELSE p

\* C22: for every valid interval (nonempty, infinite endpoints not
\* included, -math.inf / math.inf standing for an omitted endpoint)
\* simplest_in_interval of __init__.py returns a fraction, and it is the
\* fraction _simplest_in_interval returns on the same interval.
C22_PathAgreesWithMatrix ==
    entry = "path" /\ PathValid(call) /\ Ended =>
        /\ pc = "done"
        /\ result = simplest_in_interval(
                        Omitted(call.left), Omitted(call.right),
                        call.include_left, call.include_right).result

C22_Witness ==
    /\ entry = "path"
    /\ PathValid(call)
    /\ pc = "done"
    /\ iter >= 4
    /\ result[1] < 0
    /\ result[2] >= 2

---------------------------------------------------------------------------
\* The calls of the core

\* C23: every call the normaliser _simplest_in_interval makes to
\* _simplest_in_interval_pos satisfies the core's preconditions: the
\* interval passed is nonempty, its right endpoint is +infinity (1, 0), or
\* positive, or zero with right_closed, and an infinite endpoint is never
\* passed as included.
C23_CorePreconditions ==
    InCore =>
        /\ left_denominator >= 0
        /\ right_denominator >= 0
        /\ left_denominator = 0 => left_numerator = -1 /\ ~left_closed
        /\ right_denominator = 0 => right_numerator = 1 /\ ~right_closed
        /\ \/ right_denominator = 0
           \/ right_numerator > 0
           \/ (right_numerator = 0 /\ right_closed)
        /\ \/ left_denominator = 0
           \/ right_denominator = 0
           \/ left_numerator * right_denominator
                  < right_numerator * left_denominator
           \/ /\ left_numerator * right_denominator
                     = right_numerator * left_denominator
              /\ left_closed
              /\ right_closed

C23_Witness ==
    /\ entry = "matrix"
    /\ pc = "loop"
    /\ iter = 0
    /\ negate
    /\ right_denominator = 0
    /\ left_numerator = 0
    /\ ~left_closed

\* The interval held by the normaliser's parameters, as rebound before the
\* call of the core.
Passed ==
    [left |-> left, right |-> right,
     include_left |-> include_left, include_right |-> include_right]

\* The interval passed to the core lies in the nonnegative half-line: its
\* left endpoint is finite with a numerator >= 0 and it does not contain
\* zero.
Confined ==
    /\ ~IsNone(left)
    /\ left[1] >= 0
    /\ ~ContainsZero(Passed)

\* C24 as stated: the core is only ever called by the normaliser (of
\* _simplest_in_interval.py and of sided_fraction.py) with an interval
\* confined to the nonnegative half-line; intervals that contain zero or
\* reach below zero never arrive at the core.
C24_CoreConfined ==
    InCore \/ SidedInCore => Confined

\* C24, amended: the core of sided_fraction.py is only ever called with an
\* interval confined to the nonnegative half-line.  The core of
\* _simplest_in_interval.py is called with such an interval exactly when
\* the interval of the call does not contain zero; an interval that
\* contains zero arrives at that core as it was passed, with a left
\* endpoint that is -infinity, negative, or zero and included, and the core
\* then runs no iteration and returns (0, 1).
C24_CoreConfinedUnlessZero ==
    /\ SidedInCore => Confined
    /\ InCore /\ ~ContainsZero(call) =>
           /\ Confined
           /\ left_denominator > 0
           /\ left_numerator = left[1]
    /\ InCore /\ ContainsZero(call) =>
           /\ ~negate
           /\ Passed = call
           /\ \/ left_denominator = 0
              \/ left_numerator < 0
              \/ (left_numerator = 0 /\ left_closed)
           /\ iter = 0
           /\ pc # "loop" => nd = <<0, 1>>

C24_Witness ==
    /\ entry = "sided"
    /\ pc = "sided_loop"
    /\ iter = 0
    /\ left_negative
    /\ left = Zero
    /\ ~include_left
    /\ ~IsNone(right)

---------------------------------------------------------------------------
\* Paths of rational_from_float.py

\* C25: for every positive rational x and every side in {-1, 0, 1},
\* from_compressed_path(compressed_path(x, side)) returns, and returns x.
C25_CompressedRoundTrip ==
    entry = "compressed" /\ call.x[1] > 0 /\ Ended =>
        /\ pc = "done"
        /\ result = call.x

C25_Witness ==
    /\ entry = "compressed"
    /\ pc = "done"
    /\ call.side = -1
    /\ call.x[1] >= 2
    /\ call.x[2] >= 3
    /\ iter >= 4
    /\ path1.st = "done"

---------------------------------------------------------------------------
\* The division of the core loop

\* The step executes the body of the while loop of the core: it completes
\* an iteration, or the floor division of line 160 raises.
BodyStep ==
    /\ entry = "matrix"
    /\ pc = "loop"
    /\ iter' = iter + 1 \/ pc' = "raised"

\* C26: whenever the body of the core loop executes (the input being one
\* the normaliser passes, -infinity as (-1, 0) and +infinity as (1, 0)
\* included), the divisor t is strictly positive, the floor division does
\* not raise, and the quotient it computes is at least 1.
C26_DivisorPositive ==
    [][BodyStep =>
          /\ t > 0
          /\ pc' = "loop"
          /\ err' = ""
          /\ LET k == (s - B2I(st_closed)) \div t
             IN  /\ k >= 1
                 /\ v' = s - k * t
                 /\ a' = b + k * a]_vars

C26_Witness ==
    /\ entry = "matrix"
    /\ pc = "returned"
    /\ iter = 1
    /\ right_denominator = 0
    /\ left_numerator >= 2
    /\ a >= 1

===========================================================================
